---- MODULE Spec2Model ----
(***************************************************************************)
(* Model of data_entry_bot.py: WindowsDataEntryBot.run_automation and the  *)
(* methods it calls, as one sequential state machine.  The HTTP endpoint   *)
(* and the desktop (the automation toolkit, the input-simulation library,  *)
(* the editor window and the project directory) are the environment: each  *)
(* primitive either does what it is called for, fails (returns false or    *)
(* raises an Exception), or is cut short by a KeyboardInterrupt.           *)
(*                                                                         *)
(* The editor is modelled by the text of its current document: typing      *)
(* appends at the caret, Ctrl+A/Delete empties it, Ctrl+N (with the        *)
(* answer to the prompt) gives an empty document, Save-As writes it.       *)
(***************************************************************************)
EXTENDS Integers, Sequences, FiniteSets, TLC

\* ------------------------------------------------------------------ bounds
\* Longest response of the endpoint (one more than the slice keeps).
MaxResp == 11
\* Environment faults and operator interrupts per run.
MaxEvents == 2
\* Faults, interrupts and malformed records happen while one of the first
\* FaultWindow posts is handled (or before the loop).
FaultWindow == 2

\* ------------------------------------------------------- program constants
\* posts[:10]
SelectedPosts == 10
\* if post_number < 10
LastPostNumber == 10

\* ------------------------------------------------------------------- text
\* Strings are sequences of characters over a small alphabet.
Letters == {"a", "b", "A", "B"}

IsLetter(c) == c \in Letters

Upper(c) == IF c = "a" THEN "A" ELSE IF c = "b" THEN "B" ELSE c

Lower(c) == IF c = "A" THEN "a" ELSE IF c = "B" THEN "b" ELSE c

\* str.title(): a letter that follows a letter is lowercased, any other
\* letter is uppercased, other characters are kept.
RECURSIVE TitleFrom(_, _)
TitleFrom(s, afterLetter) ==
    IF s = <<>> THEN <<>>
    ELSE LET c == Head(s)
         IN  <<IF IsLetter(c)
                 THEN (IF afterLetter THEN Lower(c) ELSE Upper(c))
                 ELSE c>>
             \o TitleFrom(Tail(s), IsLetter(c))

title(s) == TitleFrom(s, FALSE)

\* The titles the endpoint serves.
TitleList == << <<"a", "b">>, <<"A", " ", "B">>, <<"a", " ", "b">>, <<"a", "B">> >>

\* ------------------------------------------------------------------ posts
\* A decoded element of the JSON array.  isdict = FALSE is an element that is
\* not an object; titleKind "int" is an object whose title is a number.
Post(k, shift) ==
    [isdict |-> TRUE, hasId |-> TRUE, id |-> k,
     titleKind |-> "str", title |-> TitleList[((k + shift) % Len(TitleList)) + 1],
     body |-> <<"body of", ToString(k)>>,
     userId |-> ((k - 1) \div 10) + 1]

Defects == {"nondict", "inttitle", "noid", "dupid"}

Defect(p, kind) ==
    CASE kind = "nondict"  -> [p EXCEPT !.isdict = FALSE]
      [] kind = "inttitle" -> [p EXCEPT !.titleKind = "int"]
      [] kind = "noid"     -> [p EXCEPT !.hasId = FALSE]
      [] kind = "dupid"    -> [p EXCEPT !.id = 1]

\* The JSON arrays the endpoint may answer with: the posts 1..n in order, at
\* most one of them malformed.
CleanResponse(n, shift) == [k \in 1..n |-> Post(k, shift)]

Min(a, b) == IF a < b THEN a ELSE b

Responses ==
    { CleanResponse(n, shift) : n \in 0..MaxResp, shift \in 0..(Len(TitleList) - 1) }
    \cup
    UNION { { [CleanResponse(n, 0) EXCEPT ![k] = Defect(@, d)] :
                k \in 1..Min(n, FaultWindow), d \in Defects } : n \in 1..MaxResp }

\* ------------------------------------------------------------- formatting
\* A format_blog_post that leaves the title as fetched.
format_blog_post_verbatim(post) ==
    [post_id |-> IF post.hasId THEN ToString(post.id) ELSE "Unknown",
     title   |-> IF post.titleKind = "absent"
                 THEN <<"U", "n", "t", "i", "t", "l", "e", "d">>
                 ELSE post.title,
     user_id |-> ToString(post.userId),
     body    |-> post.body]

\* format_blog_post: the fixed template, as the values it is filled with.
format_blog_post(post) ==
    [post_id |-> IF post.hasId THEN ToString(post.id) ELSE "Unknown",
     title   |-> IF post.titleKind = "absent"
                 THEN title(<<"U", "n", "t", "i", "t", "l", "e", "d">>)
                 ELSE title(post.title),
     user_id |-> ToString(post.userId),
     body    |-> post.body]

\* f"post {post_id}.txt" with post_id = post.get('id', post_number)
post_filename(post, post_number) ==
    <<"post ", ToString(IF post.hasId THEN post.id ELSE post_number), ".txt">>

\* Text in the editor: the template of post number src, typed in full or cut
\* short.
Typed(src, text, full) == [src |-> src, text |-> text, full |-> full]

\* ------------------------------------------------------------------ state
VARIABLES
    response,          \* the JSON array the endpoint answers with
    pc,                \* where run_automation (or a method it called) stands
    posts_data,        \* self.posts_data
    i,                 \* the loop's post number (enumerate(..., 1))
    formatted_post,    \* process_single_post's formatted_post
    filename,          \* process_single_post's filename
    successful_posts,  \* run_automation's counters
    failed_posts,
    outcome,           \* how run_automation ended
    exit_status,       \* the script's exit status
    doc,               \* the editor's current document
    files,             \* the project directory: file name -> content
    events,            \* faults and interrupts delivered so far
    h                  \* what has happened so far (observations only)

vars == <<response, pc, posts_data, i, formatted_post, filename,
          successful_posts, failed_posts, outcome, exit_status,
          doc, files, events, h>>

NoText == [post_id |-> "", title |-> <<>>, user_id |-> "", body |-> <<>>]

NoFiles == [n \in {} |-> <<>>]

\* A file left in the project directory by an earlier run (mkdir exist_ok).
StaleFiles == [n \in {<<"post ", "1", ".txt">>} |-> <<Typed(0, NoText, TRUE)>>]

H0 == [interrupts  |-> 0,      \* KeyboardInterrupts delivered
       scopeInt    |-> FALSE,  \* one arrived during fetch, launch or a post
       fetched     |-> FALSE,  \* fetch_posts_data returned
       fetchError  |-> "none", \* what fetch_posts_data raised
       launchA     |-> "none", \* launch_notepad_botcity: none / ok / fail
       launchB     |-> "none", \* launch_notepad_pyautogui
       launchResult|-> "none", \* what launch_notepad returned: true / false
       typeA       |-> "none", \* type_text_botcity for the current post
       typeB       |-> "none", \* type_text_pyautogui for the current post
       typeResult  |-> "none", \* what type_text_hybrid returned
       typedPosts  |-> {},     \* post numbers some text was typed for
       typeOkPosts |-> {},     \* post numbers type_text_hybrid returned True for
       savePosts   |-> {},     \* post numbers save_document was called for
       attempted   |-> <<>>,   \* bodies of the posts begun, in order
       itemFail    |-> {},     \* post numbers whose processing failed
       itemOk      |-> {},     \* post numbers process_single_post returned True for
       newDocAfter |-> {},     \* post numbers followed by line 376's new document
       saved       |-> {},     \* the writes of save_document in this run
       closeCalls  |-> 0,      \* calls of close_notepad
       closeUnlaunched |-> FALSE] \* close_notepad called with no launch reported

Init ==
    /\ response \in Responses
    /\ pc = "fetch"
    /\ posts_data = <<>>
    /\ i = 0
    /\ formatted_post = NoText
    /\ filename = <<>>
    /\ successful_posts = 0
    /\ failed_posts = 0
    /\ outcome = "running"
    /\ exit_status = -1
    /\ doc = <<>>
    /\ files \in {NoFiles, StaleFiles}
    /\ events = 0
    /\ h = H0

\* The environment may fail or interrupt here.
CanFault == events < MaxEvents /\ i <= FaultWindow

Fault == events' = events + 1

Interrupted(inScope) ==
    [h EXCEPT !.interrupts = @ + 1, !.scopeInt = @ \/ inScope]

\* ------------------------------------------------------- fetch_posts_data
\* posts[:10]
selected_posts(posts) == SubSeq(posts, 1, Min(Len(posts), SelectedPosts))

\* Lines 103-113: the request succeeds and the first ten posts are kept.
fetch_posts_data ==
    /\ pc = "fetch"
    /\ posts_data' = selected_posts(response)
    /\ pc' = "launch_botcity"
    /\ h' = [h EXCEPT !.fetched = TRUE]
    /\ UNCHANGED <<response, i, formatted_post, filename, successful_posts,
                   failed_posts, outcome, exit_status, doc, files, events>>

FetchErrors == {"ConnectionError", "Timeout", "HTTPError", "JSONDecodeError"}

\* A fetch_posts_data that logs the error and returns an empty list.
fetch_raises_swallowed ==
    /\ pc = "fetch"
    /\ CanFault /\ Fault
    /\ \E e \in FetchErrors :
         h' = [h EXCEPT !.fetchError = e]
    /\ posts_data' = <<>>
    /\ pc' = "launch_botcity"
    /\ UNCHANGED <<response, i, formatted_post, filename,
                   successful_posts, failed_posts, outcome, exit_status,
                   doc, files>>

\* Lines 115-126 re-raise; lines 405-407 log and re-raise to line 481.
fetch_raises ==
    /\ pc = "fetch"
    /\ CanFault /\ Fault
    /\ \E e \in FetchErrors :
         h' = [h EXCEPT !.fetchError = e]
    /\ pc' = "except_exception"
    /\ UNCHANGED <<response, posts_data, i, formatted_post, filename,
                   successful_posts, failed_posts, outcome, exit_status,
                   doc, files>>

\* ---------------------------------------------------------- launch_notepad
\* Lines 186-187 with 138-144: the toolkit launches the application.
launch_notepad_botcity ==
    /\ pc = "launch_botcity"
    /\ h' = [h EXCEPT !.launchA = "ok", !.launchResult = "true"]
    /\ pc' = "loop"
    /\ UNCHANGED <<response, posts_data, i, formatted_post, filename,
                   successful_posts, failed_posts, outcome, exit_status,
                   doc, files, events>>

\* Lines 145-151: execute returned false or raised; launch_notepad falls
\* through to line 191.
launch_notepad_botcity_fails ==
    /\ pc = "launch_botcity"
    /\ CanFault /\ Fault
    /\ h' = [h EXCEPT !.launchA = "fail"]
    /\ pc' = "launch_pyautogui"
    /\ UNCHANGED <<response, posts_data, i, formatted_post, filename,
                   successful_posts, failed_posts, outcome, exit_status,
                   doc, files>>

\* Lines 158-173, returned by line 191.
launch_notepad_pyautogui ==
    /\ pc = "launch_pyautogui"
    /\ h' = [h EXCEPT !.launchB = "ok", !.launchResult = "true"]
    /\ pc' = "loop"
    /\ UNCHANGED <<response, posts_data, i, formatted_post, filename,
                   successful_posts, failed_posts, outcome, exit_status,
                   doc, files, events>>

\* A run_automation that ignores what launch_notepad returned.
launch_notepad_pyautogui_fails_ignored ==
    /\ pc = "launch_pyautogui"
    /\ CanFault /\ Fault
    /\ h' = [h EXCEPT !.launchB = "fail", !.launchResult = "false"]
    /\ pc' = "loop"
    /\ UNCHANGED <<response, posts_data, i, formatted_post, filename,
                   successful_posts, failed_posts, outcome, exit_status,
                   doc, files>>

\* Lines 175-177: launch_notepad returns False; lines 411-415 raise to 481.
launch_notepad_pyautogui_fails ==
    /\ pc = "launch_pyautogui"
    /\ CanFault /\ Fault
    /\ h' = [h EXCEPT !.launchB = "fail", !.launchResult = "false"]
    /\ pc' = "except_exception"
    /\ UNCHANGED <<response, posts_data, i, formatted_post, filename,
                   successful_posts, failed_posts, outcome, exit_status,
                   doc, files>>

\* ------------------------------------------------------ the per-post loop
\* Line 423: the next post of posts_data.
loop_next ==
    /\ pc = "loop"
    /\ i < Len(posts_data)
    /\ i' = i + 1
    /\ pc' = "process"
    /\ h' = [h EXCEPT !.attempted = Append(@, posts_data[i + 1].body),
                      !.typeA = "none", !.typeB = "none", !.typeResult = "none"]
    /\ UNCHANGED <<response, posts_data, formatted_post, filename,
                   successful_posts, failed_posts, outcome, exit_status,
                   doc, files, events>>

\* Line 423 exhausted: on to line 449.
loop_exit ==
    /\ pc = "loop"
    /\ i >= Len(posts_data)
    /\ pc' = "close"
    /\ UNCHANGED <<response, posts_data, i, formatted_post, filename,
                   successful_posts, failed_posts, outcome, exit_status,
                   doc, files, events, h>>

\* ---------------------------------------------------- process_single_post
\* A process_single_post that saves without typing.
process_format_skips_typing ==
    /\ pc = "process"
    /\ posts_data[i].isdict /\ posts_data[i].titleKind # "int"
    /\ filename' = post_filename(posts_data[i], i)
    /\ formatted_post' = format_blog_post(posts_data[i])
    /\ pc' = "save"
    /\ UNCHANGED <<response, posts_data, i, successful_posts, failed_posts,
                   outcome, exit_status, doc, files, events, h>>

\* Lines 355-362 for a well-formed post.
process_format ==
    /\ pc = "process"
    /\ posts_data[i].isdict /\ posts_data[i].titleKind # "int"
    /\ filename' = post_filename(posts_data[i], i)
    /\ formatted_post' = format_blog_post(posts_data[i])
    /\ pc' = "type_botcity"
    /\ UNCHANGED <<response, posts_data, i, successful_posts, failed_posts,
                   outcome, exit_status, doc, files, events, h>>

\* Line 359 or 203 raises on a title that is no string; line 381 catches it
\* and process_single_post returns False (lines 429-430).
process_raises_caught ==
    /\ pc = "process"
    /\ posts_data[i].isdict /\ posts_data[i].titleKind = "int"
    /\ failed_posts' = failed_posts + 1
    /\ h' = [h EXCEPT !.itemFail = @ \cup {i}]
    /\ pc' = "pause"
    /\ UNCHANGED <<response, posts_data, i, formatted_post, filename,
                   successful_posts, outcome, exit_status, doc, files, events>>

\* A loop whose handler gives up instead of continuing.
process_raises_out_breaks ==
    /\ pc = "process"
    /\ ~posts_data[i].isdict
    /\ failed_posts' = failed_posts + 1
    /\ h' = [h EXCEPT !.itemFail = @ \cup {i}]
    /\ pc' = "close"
    /\ UNCHANGED <<response, posts_data, i, formatted_post, filename,
                   successful_posts, outcome, exit_status, doc, files, events>>

\* The element is no object: post.get raises at line 355 and again in the
\* handler at line 382, so the exception leaves process_single_post and is
\* caught at line 438 (failed_posts += 1, then line 443).
process_raises_out ==
    /\ pc = "process"
    /\ ~posts_data[i].isdict
    /\ failed_posts' = failed_posts + 1
    /\ h' = [h EXCEPT !.itemFail = @ \cup {i}]
    /\ pc' = "handler_new_document"
    /\ UNCHANGED <<response, posts_data, i, formatted_post, filename,
                   successful_posts, outcome, exit_status, doc, files, events>>

\* -------------------------------------------------------- type_text_hybrid
\* A type_text_hybrid that goes on to the fallback after a successful first
\* method.
type_text_botcity_falls_through ==
    /\ pc = "type_botcity"
    /\ doc' = Append(doc, Typed(i, formatted_post, TRUE))
    /\ h' = [h EXCEPT !.typeA = "ok", !.typedPosts = @ \cup {i}]
    /\ pc' = "type_pyautogui"
    /\ UNCHANGED <<response, posts_data, i, formatted_post, filename,
                   successful_posts, failed_posts, outcome, exit_status,
                   files, events>>

\* Lines 265-266 with 231-233: the toolkit types the text at the caret.
type_text_botcity ==
    /\ pc = "type_botcity"
    /\ doc' = Append(doc, Typed(i, formatted_post, TRUE))
    /\ h' = [h EXCEPT !.typeA = "ok", !.typeResult = "true",
                      !.typedPosts = @ \cup {i}, !.typeOkPosts = @ \cup {i}]
    /\ pc' = "save"
    /\ UNCHANGED <<response, posts_data, i, formatted_post, filename,
                   successful_posts, failed_posts, outcome, exit_status,
                   files, events>>

\* Lines 234-236: the toolkit raised, before or after typing part of the
\* text; type_text_hybrid goes on to line 270.
type_text_botcity_fails ==
    /\ pc = "type_botcity"
    /\ CanFault /\ Fault
    /\ \E part \in BOOLEAN :
         doc' = IF part THEN Append(doc, Typed(i, formatted_post, FALSE)) ELSE doc
    /\ h' = [h EXCEPT !.typeA = "fail", !.typedPosts = @ \cup {i}]
    /\ pc' = "type_pyautogui"
    /\ UNCHANGED <<response, posts_data, i, formatted_post, filename,
                   successful_posts, failed_posts, outcome, exit_status, files>>

\* Lines 245-253: select all, delete, type.
type_text_pyautogui ==
    /\ pc = "type_pyautogui"
    /\ doc' = <<Typed(i, formatted_post, TRUE)>>
    /\ h' = [h EXCEPT !.typeB = "ok", !.typeResult = "true",
                      !.typedPosts = @ \cup {i}, !.typeOkPosts = @ \cup {i}]
    /\ pc' = "save"
    /\ UNCHANGED <<response, posts_data, i, formatted_post, filename,
                   successful_posts, failed_posts, outcome, exit_status,
                   files, events>>

\* Lines 254-256: the library raised, before the document was emptied or
\* while typing; type_text_hybrid returns False, process_single_post
\* returns False at line 367 (lines 429-430).
type_text_pyautogui_fails ==
    /\ pc = "type_pyautogui"
    /\ CanFault /\ Fault
    /\ \E emptied \in BOOLEAN :
         doc' = IF emptied THEN <<Typed(i, formatted_post, FALSE)>> ELSE doc
    /\ h' = [h EXCEPT !.typeB = "fail", !.typeResult = "false",
                      !.typedPosts = @ \cup {i}, !.itemFail = @ \cup {i}]
    /\ failed_posts' = failed_posts + 1
    /\ pc' = "pause"
    /\ UNCHANGED <<response, posts_data, i, formatted_post, filename,
                   successful_posts, outcome, exit_status, files>>

\* ----------------------------------------------------------- save_document
WriteFile(name, content) ==
    [n \in (DOMAIN files) \cup {name} |-> IF n = name THEN content ELSE files[n]]

\* Lines 285-295: the Save-As dialog takes the path and writes the document.
save_document ==
    /\ pc = "save"
    /\ files' = WriteFile(filename, doc)
    /\ h' = [h EXCEPT !.savePosts = @ \cup {i},
                      !.saved = @ \cup {[name |-> filename, number |-> i,
                                         content |-> doc]}]
    /\ pc' = "save_verify"
    /\ UNCHANGED <<response, posts_data, i, formatted_post, filename,
                   successful_posts, failed_posts, outcome, exit_status,
                   doc, events>>

\* Lines 285-295 run but the window did not write the file.
save_document_not_written ==
    /\ pc = "save"
    /\ CanFault /\ Fault
    /\ h' = [h EXCEPT !.savePosts = @ \cup {i}]
    /\ pc' = "save_verify"
    /\ UNCHANGED <<response, posts_data, i, formatted_post, filename,
                   successful_posts, failed_posts, outcome, exit_status,
                   doc, files>>

\* Lines 313-315: a keystroke raised; save_document returns False and
\* process_single_post returns False at line 372 (lines 429-430).
save_document_raises ==
    /\ pc = "save"
    /\ CanFault /\ Fault
    /\ h' = [h EXCEPT !.savePosts = @ \cup {i}, !.itemFail = @ \cup {i}]
    /\ failed_posts' = failed_posts + 1
    /\ pc' = "pause"
    /\ UNCHANGED <<response, posts_data, i, formatted_post, filename,
                   successful_posts, outcome, exit_status, doc, files>>

\* Lines 297-311 and 370-379: the second Enter (whatever it raises is
\* dropped by the bare except), then the file is looked for.  Found: line
\* 375 decides on a new document; with none, process_single_post returns
\* True (line 428).  Not found: it returns False (lines 429-430).
SaveVerify(hist) ==
    IF filename \in DOMAIN files
      THEN IF i < LastPostNumber
             THEN /\ pc' = "new_document"
                  /\ h' = hist
                  /\ UNCHANGED <<successful_posts, failed_posts>>
             ELSE /\ pc' = "pause"
                  /\ successful_posts' = successful_posts + 1
                  /\ h' = [hist EXCEPT !.itemOk = @ \cup {i}]
                  /\ UNCHANGED failed_posts
      ELSE /\ pc' = "pause"
           /\ failed_posts' = failed_posts + 1
           /\ h' = [hist EXCEPT !.itemFail = @ \cup {i}]
           /\ UNCHANGED successful_posts

save_verify ==
    /\ pc = "save_verify"
    /\ SaveVerify(h)
    /\ UNCHANGED <<response, posts_data, i, formatted_post, filename,
                   outcome, exit_status, doc, files, events>>

\* ----------------------------------------------------- create_new_document
\* Line 376 with 320-328, then lines 378-379 and 428.
create_new_document ==
    /\ pc = "new_document"
    /\ doc' = <<>>
    /\ successful_posts' = successful_posts + 1
    /\ h' = [h EXCEPT !.newDocAfter = @ \cup {i}, !.itemOk = @ \cup {i}]
    /\ pc' = "pause"
    /\ UNCHANGED <<response, posts_data, i, formatted_post, filename,
                   failed_posts, outcome, exit_status, files, events>>

\* Lines 330-331: Ctrl+N raised and is only logged; the document stays.
create_new_document_fails ==
    /\ pc = "new_document"
    /\ CanFault /\ Fault
    /\ successful_posts' = successful_posts + 1
    /\ h' = [h EXCEPT !.newDocAfter = @ \cup {i}, !.itemOk = @ \cup {i}]
    /\ pc' = "pause"
    /\ UNCHANGED <<response, posts_data, i, formatted_post, filename,
                   failed_posts, outcome, exit_status, doc, files>>

\* Line 433.
pause ==
    /\ pc = "pause"
    /\ pc' = "loop"
    /\ UNCHANGED <<response, posts_data, i, formatted_post, filename,
                   successful_posts, failed_posts, outcome, exit_status,
                   doc, files, events, h>>

\* Lines 442-446: the loop's handler makes a new document and continues;
\* its bare except drops whatever create_new_document lets through.
handler_new_document ==
    /\ pc = "handler_new_document"
    /\ doc' = <<>>
    /\ pc' = "loop"
    /\ UNCHANGED <<response, posts_data, i, formatted_post, filename,
                   successful_posts, failed_posts, outcome, exit_status,
                   files, events, h>>

handler_new_document_fails ==
    /\ pc = "handler_new_document"
    /\ CanFault /\ Fault
    /\ pc' = "loop"
    /\ UNCHANGED <<response, posts_data, i, formatted_post, filename,
                   successful_posts, failed_posts, outcome, exit_status,
                   doc, files, h>>

\* ------------------------------------------------------------ close_notepad
\* close_notepad, lines 335-347: Alt+F4, then 'n' to the prompt.
CloseCalled(hist) ==
    [hist EXCEPT !.closeCalls = @ + 1,
                 !.closeUnlaunched = @ \/ hist.launchResult # "true"]

\* Line 449.
close_notepad ==
    /\ pc = "close"
    /\ h' = CloseCalled(h)
    /\ pc' = "report"
    /\ UNCHANGED <<response, posts_data, i, formatted_post, filename,
                   successful_posts, failed_posts, outcome, exit_status,
                   doc, files, events>>

\* Lines 451-476: the report; run_automation returns.
final_report ==
    /\ pc = "report"
    /\ outcome' = "returned"
    /\ pc' = "main"
    /\ UNCHANGED <<response, posts_data, i, formatted_post, filename,
                   successful_posts, failed_posts, exit_status,
                   doc, files, events, h>>

\* Lines 478-480: log, close, return.
except_keyboard_interrupt ==
    /\ pc = "except_interrupt"
    /\ h' = CloseCalled(h)
    /\ outcome' = "returned"
    /\ pc' = "main"
    /\ UNCHANGED <<response, posts_data, i, formatted_post, filename,
                   successful_posts, failed_posts, exit_status,
                   doc, files, events>>

\* Lines 481-484: log, close, re-raise.
except_exception ==
    /\ pc = "except_exception"
    /\ h' = CloseCalled(h)
    /\ outcome' = "raised"
    /\ pc' = "main"
    /\ UNCHANGED <<response, posts_data, i, formatted_post, filename,
                   successful_posts, failed_posts, exit_status,
                   doc, files, events>>

\* ------------------------------------------------------- KeyboardInterrupt
\* Where a post is being handled (between line 423 and line 446).
InPost == {"process", "type_botcity", "type_pyautogui", "save", "save_verify",
           "new_document", "pause", "handler_new_document"}

\* Nothing between the interrupt and line 478 catches it: the fetch (its
\* handlers name requests' errors and line 405 names Exception), the launch
\* (lines 149, 175, 193 and 413 name Exception), line 424 and the report.
interrupt_propagates ==
    /\ \/ pc \in {"fetch", "launch_botcity", "launch_pyautogui", "report"}
       \/ pc = "loop" /\ i < Len(posts_data)
    /\ CanFault /\ Fault
    /\ h' = Interrupted(pc # "report")
    /\ pc' = "except_interrupt"
    /\ UNCHANGED <<response, posts_data, i, formatted_post, filename,
                   successful_posts, failed_posts, outcome, exit_status,
                   doc, files>>

\* Inside the loop's try (lines 427-433) and outside every bare except: the
\* methods' handlers name Exception, so line 435 catches it and breaks.
interrupt_breaks_loop ==
    /\ pc \in {"process", "type_botcity", "type_pyautogui", "new_document", "pause"}
    /\ CanFault /\ Fault
    /\ h' = Interrupted(TRUE)
    /\ pc' = "close"
    /\ UNCHANGED <<response, posts_data, i, formatted_post, filename,
                   successful_posts, failed_posts, outcome, exit_status,
                   doc, files>>

\* The same during lines 285-295, where the file may already be written.
interrupt_in_save ==
    /\ pc = "save"
    /\ CanFault /\ Fault
    /\ \E written \in BOOLEAN :
         IF written
           THEN /\ files' = WriteFile(filename, doc)
                /\ h' = [Interrupted(TRUE) EXCEPT
                           !.savePosts = @ \cup {i},
                           !.saved = @ \cup {[name |-> filename, number |-> i,
                                              content |-> doc]}]
           ELSE /\ files' = files
                /\ h' = [Interrupted(TRUE) EXCEPT !.savePosts = @ \cup {i}]
    /\ pc' = "close"
    /\ UNCHANGED <<response, posts_data, i, formatted_post, filename,
                   successful_posts, failed_posts, outcome, exit_status, doc>>

\* Lines 298-302: the bare except around the second Enter drops it and
\* save_document goes on to line 305.
interrupt_swallowed_in_save ==
    /\ pc = "save_verify"
    /\ CanFault /\ Fault
    /\ SaveVerify(Interrupted(TRUE))
    /\ UNCHANGED <<response, posts_data, i, formatted_post, filename,
                   outcome, exit_status, doc, files>>

\* Lines 324-328: the bare except around the 'n' drops it and
\* process_single_post goes on to return True.
interrupt_swallowed_in_new_document ==
    /\ pc = "new_document"
    /\ CanFault /\ Fault
    /\ doc' = <<>>
    /\ successful_posts' = successful_posts + 1
    /\ h' = [Interrupted(TRUE) EXCEPT !.newDocAfter = @ \cup {i},
                                      !.itemOk = @ \cup {i}]
    /\ pc' = "pause"
    /\ UNCHANGED <<response, posts_data, i, formatted_post, filename,
                   failed_posts, outcome, exit_status, files>>

\* Lines 442-445: the handler's bare except drops it, whether or not the
\* new document was made.
interrupt_swallowed_in_handler ==
    /\ pc = "handler_new_document"
    /\ CanFault /\ Fault
    /\ \E made \in BOOLEAN : doc' = IF made THEN <<>> ELSE doc
    /\ h' = Interrupted(TRUE)
    /\ pc' = "loop"
    /\ UNCHANGED <<response, posts_data, i, formatted_post, filename,
                   successful_posts, failed_posts, outcome, exit_status, files>>

\* Line 449's close_notepad is cut at lines 336-337 (line 346 names
\* Exception): line 478 catches it.
interrupt_in_close ==
    /\ pc = "close"
    /\ CanFault /\ Fault
    /\ h' = CloseCalled(Interrupted(FALSE))
    /\ pc' = "except_interrupt"
    /\ UNCHANGED <<response, posts_data, i, formatted_post, filename,
                   successful_posts, failed_posts, outcome, exit_status,
                   doc, files>>

\* The close_notepad of line 480 or 483 is cut at lines 336-337: nothing is
\* left to catch it and it leaves run_automation.
interrupt_in_handler_close ==
    /\ pc \in {"except_interrupt", "except_exception"}
    /\ CanFault /\ Fault
    /\ h' = CloseCalled(Interrupted(FALSE))
    /\ outcome' = "interrupted"
    /\ pc' = "main"
    /\ UNCHANGED <<response, posts_data, i, formatted_post, filename,
                   successful_posts, failed_posts, exit_status, doc, files>>

\* --------------------------------------------------------------------- main
\* Lines 497-501 and 524-531: an Exception exits with status 1, an interrupt
\* with status 0, a return ends the script normally.
main ==
    /\ pc = "main"
    /\ exit_status' = IF outcome = "raised" THEN 1 ELSE 0
    /\ pc' = "done"
    /\ UNCHANGED <<response, posts_data, i, formatted_post, filename,
                   successful_posts, failed_posts, outcome,
                   doc, files, events, h>>

Next ==
    \/ fetch_posts_data
    \/ fetch_raises
    \/ launch_notepad_botcity
    \/ launch_notepad_botcity_fails
    \/ launch_notepad_pyautogui
    \/ launch_notepad_pyautogui_fails
    \/ loop_next
    \/ loop_exit
    \/ process_format
    \/ process_raises_caught
    \/ process_raises_out
    \/ type_text_botcity
    \/ type_text_botcity_fails
    \/ type_text_pyautogui
    \/ type_text_pyautogui_fails
    \/ save_document
    \/ save_document_not_written
    \/ save_document_raises
    \/ save_verify
    \/ create_new_document
    \/ create_new_document_fails
    \/ pause
    \/ handler_new_document
    \/ handler_new_document_fails
    \/ close_notepad
    \/ final_report
    \/ except_keyboard_interrupt
    \/ except_exception
    \/ interrupt_propagates
    \/ interrupt_breaks_loop
    \/ interrupt_in_save
    \/ interrupt_swallowed_in_save
    \/ interrupt_swallowed_in_new_document
    \/ interrupt_swallowed_in_handler
    \/ interrupt_in_close
    \/ interrupt_in_handler_close
    \/ main

Spec == Init /\ [][Next]_vars

\* ================================================================== claims
Ended == pc = "done"

NoInterrupt == h.interrupts = 0

NothingProcessed ==
    /\ h.attempted = <<>>
    /\ h.typedPosts = {} /\ h.savePosts = {} /\ h.saved = {}
    /\ successful_posts = 0 /\ failed_posts = 0
    /\ doc = <<>>

\* C1: once fetch_posts_data has raised, no launch method is ever run, no
\* text is typed, no save is attempted and no post is processed; with no
\* operator interrupt cutting the handler's close_notepad short,
\* run_automation ends by re-raising and the script exits with status 1.
C1_FetchFailureAborts ==
    h.fetchError # "none" =>
        /\ h.launchA = "none" /\ h.launchB = "none" /\ h.launchResult = "none"
        /\ NothingProcessed
        /\ outcome # "returned"
        /\ (NoInterrupt /\ pc \in {"main", "done"} => outcome = "raised")
        /\ (NoInterrupt /\ Ended => exit_status = 1)

C1_Witness ==
    Ended /\ h.fetchError = "Timeout" /\ outcome = "raised" /\ exit_status = 1

\* ------------------------------------------------------------------- C2
FileOf(k) == <<"post ", ToString(k), ".txt">>

\* The file's text holds this title and this body in one template.
Contains(content, t, b) ==
    \E j \in 1..Len(content) :
        content[j].full /\ content[j].text.title = t /\ content[j].text.body = b

IdsInOrder ==
    /\ Len(posts_data) = SelectedPosts
    /\ \A k \in 1..SelectedPosts : posts_data[k].hasId /\ posts_data[k].id = k

\* C2 as stated, restricted to runs in which everything worked: still
\* violated, because the title is typed in title case.
C2_OriginalAllSucceeded ==
    (Ended /\ h.fetched /\ NoInterrupt /\ events = 0 /\ IdsInOrder
           /\ successful_posts = SelectedPosts) =>
        \A k \in 1..SelectedPosts :
            /\ FileOf(k) \in DOMAIN files
            /\ Contains(files[FileOf(k)], response[k].title, response[k].body)

\* Every post counted as successful had its file written by its own save.
AllWritten == \A k \in h.itemOk : \E w \in h.saved : w.number = k

Continuing == pc \in {"pause", "handler_new_document", "loop"}

\* C3: each item that fails (typing failed by both methods, save failed, an
\* exception while processing) is counted once in failed_posts, never as a
\* success, and never ends run_automation with an error; unless an operator
\* interrupt arrives, the post after a failed one is begun, and the loop
\* ends with every fetched post attempted.
C3_FailureCountedLoopContinues ==
    /\ failed_posts = Cardinality(h.itemFail)
    /\ h.itemFail \cap h.itemOk = {}
    /\ (h.itemFail # {} => outcome # "raised")
    /\ \A k \in h.itemFail :
          (NoInterrupt /\ k < Len(posts_data) /\ ~Continuing)
              => Len(h.attempted) > k
    /\ (NoInterrupt /\ outcome = "returned")
          => Len(h.attempted) = Len(posts_data)

C3_Witness ==
    /\ Ended /\ NoInterrupt
    /\ h.itemFail = {1, 2} /\ failed_posts = 2
    /\ Len(h.attempted) = SelectedPosts
    /\ successful_posts = SelectedPosts - 2

\* ------------------------------------------------------------------- C4
\* Method B is run only after method A failed, always after it failed
\* (unless an interrupt ends the call), and the result is A or B.
Fallback(a, b, result, atB) ==
    /\ (b # "none" => a = "fail")
    /\ (a = "fail" /\ b = "none" => pc = atB \/ ~NoInterrupt)
    /\ (result = "true" <=> (a = "ok" \/ (a = "fail" /\ b = "ok")))
    /\ (result = "false" <=> (a = "fail" /\ b = "fail"))

\* C4: in launch_notepad and in type_text_hybrid the toolkit method is tried
\* first, the input-simulation method is tried exactly when the toolkit
\* method failed, and the call reports success exactly when the first
\* succeeded or, after it failed, the second did.
C4_FallbackOrder ==
    /\ Fallback(h.launchA, h.launchB, h.launchResult, "launch_pyautogui")
    /\ Fallback(h.typeA, h.typeB, h.typeResult, "type_pyautogui")
    /\ (pc = "save" => h.typeResult = "true")

C4_Witness ==
    /\ h.launchA = "fail" /\ h.launchB = "ok" /\ h.launchResult = "true"
    /\ h.typeA = "fail" /\ h.typeB = "ok" /\ h.typeResult = "true"
    /\ pc = "save"

\* ------------------------------------------------------------------- C5
\* C5 as stated: every file written in a run is named after the id of the
\* post being processed and holds that post's template and no text of any
\* other post.
C5_Original ==
    \A w \in h.saved :
        LET post == posts_data[w.number]
        IN  /\ w.name = <<"post ", ToString(IF post.hasId THEN post.id
                                             ELSE w.number), ".txt">>
            /\ \E j \in 1..Len(w.content) :
                  /\ w.content[j].full
                  /\ w.content[j].src = w.number
                  /\ w.content[j].text = format_blog_post(post)
            /\ \A j \in 1..Len(w.content) : w.content[j].src = w.number

\* ------------------------------------------------------------------- C6
\* C6 as stated: after an operator interrupt during the fetch, the launch
\* or the processing of a post, no further post is begun; and a run with
\* that one interrupt ends by returning normally, close_notepad called.
C6_Original ==
    /\ [][h.scopeInt => h'.attempted = h.attempted]_vars
    /\ []((h.scopeInt /\ h.interrupts = 1 /\ Ended)
            => (outcome = "returned" /\ h.closeCalls >= 1))

\* ------------------------------------------------------------------- C7
\* C7: text is typed only after launch_notepad returned true; save_document
\* is called for a post only after type_text_hybrid returned true for it;
\* the posts are begun in the order fetched, each only after the one before
\* it was counted as succeeded or failed.
C7_SequentialPass ==
    /\ (h.typedPosts # {} => h.launchResult = "true")
    /\ h.savePosts \subseteq h.typeOkPosts
    /\ Len(h.attempted) <= Len(response)
    /\ \A k \in 1..Len(h.attempted) :
          /\ h.attempted[k] = response[k].body
          /\ (k < Len(h.attempted) => k \in h.itemOk \cup h.itemFail)
    /\ h.typedPosts \cup h.savePosts \subseteq 1..Len(h.attempted)
    /\ (pc \in InPost => i = Len(h.attempted))

C7_Witness ==
    /\ Ended /\ Len(h.attempted) = SelectedPosts
    /\ h.savePosts = (1..SelectedPosts) \ {2}
    /\ h.itemFail = {2}

\* ------------------------------------------------------------------- C8
\* C8: when launch_notepad returned false no post is processed, nothing is
\* typed or saved and run_automation does not return normally (it raises
\* the launch error unless an interrupt cuts the handler's close_notepad
\* short); the loop is entered only after launch_notepad returned true.
C8_LaunchFailureAborts ==
    /\ h.launchResult = "false" =>
          /\ h.launchA = "fail" /\ h.launchB = "fail"
          /\ NothingProcessed
          /\ outcome # "returned"
          /\ (NoInterrupt /\ pc \in {"main", "done"} => outcome = "raised")
    /\ (pc \in InPost \cup {"loop"} \/ h.attempted # <<>>)
          => h.launchResult = "true"

C8_Witness ==
    /\ Ended /\ h.launchResult = "false" /\ outcome = "raised"
    /\ Len(posts_data) = SelectedPosts

\* ------------------------------------------------------------------- C9
\* C9 as stated: with n >= 1 posts fetched, a new document is made after
\* every successful post before the n-th and none after the n-th.
C9_Original ==
    (h.fetched /\ Len(posts_data) >= 1) =>
        /\ Len(posts_data) \notin h.newDocAfter
        /\ \A k \in h.itemOk : k < Len(posts_data) => k \in h.newDocAfter

\* ------------------------------------------------------------------ C10
\* C10 as stated: close_notepad is called only in runs where launch_notepad
\* has returned true.
C10_Original == h.closeCalls > 0 => h.launchResult = "true"

====
